---- MODULE Spec2Model ----
(***************************************************************************)
(* Model of requiam/delta.py: class Delta.                                 *)
(*                                                                         *)
(* A Delta is built from the LDAP member set and the Grouper query result; *)
(* synchronize() gates on sync_max and then sends the drops and the adds   *)
(* to the Grouper REST endpoint in batches.  The Grouper service is the    *)
(* environment: it answers each request with a well-formed result code, or *)
(* the call fails (timeout, connection error, unparseable body, missing    *)
(* result-code field).                                                     *)
(***************************************************************************)
EXTENDS Integers, Sequences, FiniteSets, TLC

\* ---------------------------------------------------------------- bounds
MaxIds == 3
MaxBatchSize == 2
MaxSyncMax == 3
MaxDelay == 1

IdPool == <<"A", "B", "C", "D", "E", "F">>
Ids == {IdPool[i] : i \in 1..MaxIds}

BatchSizes == 0..MaxBatchSize
SyncMaxes == {1, MaxSyncMax}
BatchDelays == {0, MaxDelay}
BatchTimeouts == {30}

\* ------------------------------------------------------------- helpers
Min(a, b) == IF a < b THEN a ELSE b

\* all orderings of a finite set, as sequences without repetition
Orderings(S) ==
    {f \in [1..Cardinality(S) -> S] : \A i, j \in 1..Cardinality(S) : f[i] = f[j] => i = j}

Range(s) == {s[i] : i \in 1..Len(s)}

\* result codes are strings; they are kept as sequences of characters so
\* that Python's substring test on them can be computed
SUCCESS == <<"S", "U", "C", "C", "E", "S", "S">>
PROBLEM == <<"P", "R", "O", "B", "L", "E", "M">>
Codes == {SUCCESS, PROBLEM, <<"S", "U", "C">>}

\* Python: a in b, for two strings
StrIn(a, b) ==
    \E i \in 0..(Len(b) - Len(a)) : \A k \in 1..Len(a) : b[i + k] = a[k]

\* ------------------------------------------------------ the environment
\* What can come back from one requests.post / requests.put call and the
\* rsp.json() lookup that follows it.
\* A well-formed answer carries a result code, and the service has applied
\* the request exactly when the code is SUCCESS; a request that timed out
\* may or may not have been applied; the other failures leave the group alone.
Outcomes ==
    {[kind |-> "json", code |-> c, applied |-> (c = SUCCESS)] : c \in Codes}
        \cup [kind : {"Timeout"}, code : {<< >>}, applied : BOOLEAN]
        \cup [kind : {"ConnectionError", "JSONDecodeError", "KeyError"},
              code : {<< >>}, applied : {FALSE}]

VARIABLES
    ldap_members, grouper_query_dict, grouper_members,
    batch_size, batch_timeout, batch_delay, sync_max,
    drops, adds, common,
    drops_iter, adds_iter,      \* list(self.drops), list(self.adds): the sets in
                                \* the order in which Python iterates them
    pc, step,                   \* position of the control in synchronize()
    n_batches, batches, data,   \* locals of synchronize()
    in_flight,                  \* requests on the wire
    remote,                     \* membership of the group held by the Grouper service
    trace,                      \* what the current call has done so far
    exc,                        \* exception that left synchronize(), or "none"
    calls,                      \* synchronize() calls made on this object: 0, 1, 2 = more
    seen                        \* the gate decisions taken and the batch lists built
                                \* by the calls made on this object so far

vars == <<ldap_members, grouper_query_dict, grouper_members,
          batch_size, batch_timeout, batch_delay, sync_max,
          drops, adds, common, drops_iter, adds_iter,
          pc, step, n_batches, batches, data, in_flight, remote, trace, exc, calls, seen>>

fields == <<ldap_members, grouper_query_dict, grouper_members,
            batch_size, batch_timeout, batch_delay, sync_max,
            drops, adds, common, drops_iter, adds_iter>>

\* ------------------------------------------------------- Delta.__init__
_common(ldap, grouper) == ldap \cap grouper

\* a slip: the members of the group are not taken out of the adds
_adds_all(ldap, grouper) == ldap

_adds(ldap, grouper) == ldap \ grouper

\* a slip: the operands of the difference are swapped
_drops_swapped(ldap, grouper) == ldap \ grouper

\* a slip: the LDAP members are not taken out of the drops
_drops_all(ldap, grouper) == grouper

_drops(ldap, grouper) == grouper \ ldap

GrouperQueryDict(members) ==
    [members |-> members,
     grouper_group |-> "arizona.edu:dept:LBRY:figshare:test",
     grouper_members_url |-> "https://grouper/groups/test/members",
     grouper_user |-> "user",
     grouper_password |-> "password"]

NoData == [envelope |-> "none"]

NothingSeen == [gate |-> {}, drop_batches |-> {}, add_batches |-> {}]

\* The member ids are opaque and Delta only compares them for equality, so
\* every pair of input sets is, up to a renaming of the ids, a pair in which
\* the shared ids come first in the pool, then the ids only LDAP has, then
\* the ids only the group has.
InputSets ==
    {[ldap |-> {IdPool[i] : i \in 1..(c + a)},
      members |-> {IdPool[i] : i \in (1..c) \cup ((c + a + 1)..(c + a + d))}] :
        <<c, a, d>> \in {t \in (0..MaxIds) \X (0..MaxIds) \X (0..MaxIds) :
                            t[1] + t[2] + t[3] <= MaxIds}}

Init ==
    \E inp \in InputSets :
      LET ldap == inp.ldap
          members == inp.members
      IN
        /\ ldap_members = ldap
        /\ grouper_query_dict = GrouperQueryDict(members)
        /\ grouper_members = grouper_query_dict["members"]
        /\ batch_size \in BatchSizes
        /\ batch_timeout \in BatchTimeouts
        /\ batch_delay \in BatchDelays
        /\ sync_max \in SyncMaxes
        /\ drops = _drops(ldap_members, grouper_members)
        /\ adds = _adds(ldap_members, grouper_members)
        /\ common = _common(ldap_members, grouper_members)
        /\ drops_iter \in Orderings(drops)
        /\ adds_iter \in Orderings(adds)
        /\ pc = "Start"
        /\ step = "none"
        /\ n_batches = 0
        /\ batches = << >>
        /\ data = NoData
        /\ in_flight = {}
        /\ remote = members
        /\ trace = << >>
        /\ exc = "none"
        /\ calls = 0
        /\ seen = NothingSeen

\* --------------------------------------------------------- trace events
Log(level, msg, args) == [ev |-> "log", level |-> level, msg |-> msg, args |-> args]

Sent(verb, d, timeout) ==
    [ev |-> "request", verb |-> verb,
     url |-> grouper_query_dict["grouper_members_url"],
     auth |-> <<grouper_query_dict["grouper_user"], grouper_query_dict["grouper_password"]>>,
     data |-> d,
     headers |-> [Content_type |-> "text/x-json"],
     timeout |-> timeout]

Response(r) == [ev |-> "response", kind |-> r.kind, code |-> r.code]

Sleep(seconds) == [ev |-> "sleep", seconds |-> seconds]

\* ---------------------------------------------------- Delta.synchronize
\* a slip: each slice reaches one element into the next one, l[i:i + size + 1]
Batches_overlap(l, size) ==
    [k \in 1..((Len(l) + size - 1) \div size) |->
        SubSeq(l, (k - 1) * size + 1, Min(k * size + 1, Len(l)))]

\* a slip: the last, shorter slice is left out
Batches_full_only(l, size) ==
    [k \in 1..(Len(l) \div size) |-> SubSeq(l, (k - 1) * size + 1, k * size)]

\* [l[i:i + size] for i in range(0, len(l), size)], for size > 0
Batches(l, size) ==
    [k \in 1..((Len(l) + size - 1) \div size) |->
        SubSeq(l, (k - 1) * size + 1, Min(k * size, Len(l)))]

\* a slip: the request replaces the whole membership by the batch
RequestData_replace(envelope, batch) ==
    [envelope |-> envelope,
     replaceAllExisting |-> "T",
     subjectLookups |-> [i \in 1..Len(batch) |-> [subjectId |-> batch[i]]]]

\* the body of one mutation request: lines 111-115 / 147-151
RequestData(envelope, batch) ==
    [envelope |-> envelope,
     replaceAllExisting |-> "F",
     subjectLookups |-> [i \in 1..Len(batch) |-> [subjectId |-> batch[i]]]]

\* rsp_j[...]['resultCode'] not in 'SUCCESS'
IsProblem(code) == ~StrIn(code, SUCCESS)

\* a slip: the gate lets one change more through
ExceedsSyncMax_late(total_delta, max) == total_delta > max + 1

\* a slip: a total equal to the limit is refused too
ExceedsSyncMax_eq(total_delta, max) == total_delta >= max

\* total_delta > self.sync_max
ExceedsSyncMax(total_delta, max) == total_delta > max

\* a slip: a result code that reports a problem is raised as an error
Returns_ok_only(r) == r.kind = "json" /\ StrIn(r.code, SUCCESS)

\* the remote call returns and the result code is found in its body: nothing
\* in lines 118-128 / 154-164 raises
Returns(r) == r.kind = "json"

\* what the Grouper service does to the group when it applies a request
Apply(members, d) ==
    LET ids == {d.subjectLookups[i].subjectId : i \in 1..Len(d.subjectLookups)}
    IN  IF d.envelope = "WsRestDeleteMemberRequest" THEN members \ ids
        ELSE members \cup ids

\* entry of synchronize(): a call on the constructed object, the first one
\* or a later one after an earlier call has returned or raised
synchronize ==
    /\ pc \in {"Start", "Done", "Aborted", "Raised"}
    /\ pc' = "GateCheck"
    /\ step' = "none"
    /\ trace' = <<Log("debug", "entered", << >>)>>
    /\ exc' = "none"
    /\ n_batches' = 0
    /\ batches' = << >>
    /\ data' = NoData
    /\ calls' = Min(calls + 1, 2)
    /\ UNCHANGED <<fields, in_flight, remote, seen>>

\* lines 91-108: the gate, then the start of the drop phase
GateCheck ==
    /\ pc = "GateCheck"
    /\ LET total_delta == Len(adds_iter) + Len(drops_iter)
           list_of_drops == drops_iter
       IN  IF ExceedsSyncMax(total_delta, sync_max)
           THEN /\ trace' = trace \o
                       <<Log("warning", "total delta exceeds maximum sync limit, will not synchronize",
                             <<total_delta, sync_max>>),
                         Log("debug", "finished synchronize", << >>)>>
                /\ pc' = "Aborted"
                /\ seen' = [seen EXCEPT !.gate = @ \cup {"abort"}]
                /\ UNCHANGED <<step, batches, exc>>
           ELSE LET entry == trace \o
                       <<Log("info", "synchronizing ldap query results to",
                             <<grouper_query_dict["grouper_group"]>>),
                         Log("info", "batch size, batch timeout, batch delay",
                             <<batch_size, batch_timeout, batch_delay>>),
                         Log("info", "processing drops:", << >>)>>
                IN  /\ trace' = entry
                    /\ IF batch_size = 0
                       THEN \* range() arg 3 must not be zero
                            /\ pc' = "Raised"
                            /\ exc' = "ValueError"
                            /\ seen' = [seen EXCEPT !.gate = @ \cup {"pass"}]
                            /\ UNCHANGED <<step, batches>>
                       ELSE /\ pc' = "DropPhase"
                            /\ step' = "loop"
                            /\ batches' = Batches(list_of_drops, batch_size)
                            /\ seen' = [seen EXCEPT !.gate = @ \cup {"pass"},
                                                     !.drop_batches = @ \cup {batches'}]
                            /\ exc' = exc
    /\ n_batches' = 0
    /\ UNCHANGED <<fields, data, in_flight, remote, calls>>

\* a slip: the next batch is sent without waiting for the answer or the pause
Submit_async(phase, envelope, verb) ==
    /\ pc = phase
    /\ step \in {"loop", "wait", "pause"}
    /\ n_batches < Len(batches)
    /\ n_batches' = n_batches + 1
    /\ data' = RequestData(envelope, batches[n_batches + 1])
    /\ in_flight' = in_flight \cup {data'}
    /\ trace' = Append(trace, Sent(verb, data', batch_timeout))
    /\ step' = "wait"
    /\ UNCHANGED <<fields, pc, batches, remote, exc, calls, seen>>

\* one iteration of a loop up to the remote call: lines 109-123 / 145-159
Submit(phase, envelope, verb) ==
    /\ pc = phase
    /\ step = "loop"
    /\ n_batches < Len(batches)
    /\ n_batches' = n_batches + 1
    /\ data' = RequestData(envelope, batches[n_batches + 1])
    /\ in_flight' = in_flight \cup {data'}
    /\ trace' = Append(trace, Sent(verb, data', batch_timeout))
    /\ step' = "wait"
    /\ UNCHANGED <<fields, pc, batches, remote, exc, calls, seen>>

\* a slip: the drop loop sends its request with the verb of the add loop
DropSubmit_put == Submit("DropPhase", "WsRestDeleteMemberRequest", "PUT")

DropSubmit == Submit("DropPhase", "WsRestDeleteMemberRequest", "POST")

\* a slip: the add loop, a copy of the drop loop, keeps the delete envelope
AddSubmit_delete == Submit("AddPhase", "WsRestDeleteMemberRequest", "PUT")

AddSubmit == Submit("AddPhase", "WsRestAddMemberRequest", "PUT")

\* the remote call returns or fails, and the rest of the iteration up to the
\* pause: lines 124-137 / 160-173
Receive(phase, problem_msg, ok_msg) ==
    /\ pc = phase
    /\ step = "wait"
    /\ \E r \in Outcomes :
        /\ remote' = IF r.applied THEN Apply(remote, data) ELSE remote
        /\ in_flight' = in_flight \ {data}
        /\ IF ~Returns(r)
           THEN /\ pc' = "Raised"
                /\ exc' = r.kind
                /\ step' = "none"
                /\ trace' = Append(trace, Response(r))
           ELSE /\ pc' = pc
                /\ exc' = exc
                /\ LET outcome == IF IsProblem(r.code)
                                  THEN Log("warning", problem_msg, <<r.code>>)
                                  ELSE Log("info", ok_msg,
                                           <<n_batches, Len(batches[n_batches]), "batch_t">>)
                   IN  IF batch_delay > 0
                       THEN /\ step' = "pause"
                            /\ trace' = trace \o <<Response(r), outcome,
                                                   Log("info", "pausing for seconds", <<batch_delay>>)>>
                       ELSE /\ step' = "loop"
                            /\ trace' = trace \o <<Response(r), outcome>>
    /\ UNCHANGED <<fields, n_batches, batches, data, calls, seen>>

DropReceive == Receive("DropPhase", "problem running batch delete, result code", "dropped batch")

AddReceive == Receive("AddPhase", "problem running batch add, result code", "added batch")

\* time.sleep(self.batch_delay) returns: lines 138 / 174
Pause(phase) ==
    /\ pc = phase
    /\ step = "pause"
    /\ trace' = Append(trace, Sleep(batch_delay))
    /\ step' = "loop"
    /\ UNCHANGED <<fields, pc, n_batches, batches, data, in_flight, remote, exc, calls, seen>>

DropPause == Pause("DropPhase")

AddPause == Pause("AddPhase")

\* a slip: the drop loop is left after any iteration
StartAdds_early ==
    /\ pc = "DropPhase"
    /\ step = "loop"
    /\ n_batches <= Len(batches)
    /\ trace' = Append(trace, Log("info", "processing adds:", << >>))
    /\ n_batches' = 0
    /\ LET list_of_adds == adds_iter
       IN  batches' = Batches(list_of_adds, batch_size)
    /\ pc' = "AddPhase"
    /\ seen' = [seen EXCEPT !.add_batches = @ \cup {batches'}]
    /\ UNCHANGED <<fields, step, data, in_flight, remote, exc, calls>>

\* the drop loop is exhausted; lines 140-144
StartAdds ==
    /\ pc = "DropPhase"
    /\ step = "loop"
    /\ n_batches = Len(batches)
    /\ trace' = Append(trace, Log("info", "processing adds:", << >>))
    /\ n_batches' = 0
    /\ LET list_of_adds == adds_iter
       IN  batches' = Batches(list_of_adds, batch_size)
    /\ pc' = "AddPhase"
    /\ seen' = [seen EXCEPT !.add_batches = @ \cup {batches'}]
    /\ UNCHANGED <<fields, step, data, in_flight, remote, exc, calls>>

\* a slip: the processed adds and drops are cleared at the end of the call
Finish_clears ==
    /\ pc = "AddPhase"
    /\ step = "loop"
    /\ n_batches = Len(batches)
    /\ trace' = Append(trace, Log("debug", "finished synchronize", << >>))
    /\ pc' = "Done"
    /\ step' = "none"
    /\ adds' = {}
    /\ drops' = {}
    /\ adds_iter' = << >>
    /\ drops_iter' = << >>
    /\ UNCHANGED <<ldap_members, grouper_query_dict, grouper_members,
                   batch_size, batch_timeout, batch_delay, sync_max, common,
                   n_batches, batches, data, in_flight, remote, exc, calls, seen>>

\* the add loop is exhausted; lines 176-177
Finish ==
    /\ pc = "AddPhase"
    /\ step = "loop"
    /\ n_batches = Len(batches)
    /\ trace' = Append(trace, Log("debug", "finished synchronize", << >>))
    /\ pc' = "Done"
    /\ step' = "none"
    /\ UNCHANGED <<fields, n_batches, batches, data, in_flight, remote, exc, calls, seen>>

\* Delta.__init__ again: after a run the caller queries the group anew and
\* builds a new Delta from the same LDAP members and the group as it now is
NewDelta ==
    /\ pc \in {"Done", "Aborted", "Raised"}
    /\ grouper_query_dict' = GrouperQueryDict(remote)
    /\ grouper_members' = grouper_query_dict'["members"]
    /\ drops' = _drops(ldap_members, grouper_members')
    /\ adds' = _adds(ldap_members, grouper_members')
    /\ common' = _common(ldap_members, grouper_members')
    /\ drops_iter' \in Orderings(drops')
    /\ adds_iter' \in Orderings(adds')
    /\ pc' = "Start"
    /\ step' = "none"
    /\ n_batches' = 0
    /\ batches' = << >>
    /\ data' = NoData
    /\ trace' = << >>
    /\ exc' = "none"
    /\ calls' = 0
    /\ seen' = NothingSeen
    /\ UNCHANGED <<ldap_members, batch_size, batch_timeout, batch_delay, sync_max,
                   in_flight, remote>>

Next ==
    \/ synchronize
    \/ GateCheck
    \/ DropSubmit
    \/ DropReceive
    \/ DropPause
    \/ StartAdds
    \/ AddSubmit
    \/ AddReceive
    \/ AddPause
    \/ Finish
    \/ NewDelta

Spec == Init /\ [][Next]_vars

\* ------------------------------------------------- reading the trace
Requests(t) == SelectSeq(t, LAMBDA e : e.ev = "request")

Responses(t) == SelectSeq(t, LAMBDA e : e.ev = "response")

Sleeps(t) == SelectSeq(t, LAMBDA e : e.ev = "sleep")

Warnings(t) == SelectSeq(t, LAMBDA e : e.ev = "log" /\ e.level = "warning")

IsDrop(e) == e.ev = "request" /\ e.data.envelope = "WsRestDeleteMemberRequest"

IsAdd(e) == e.ev = "request" /\ e.data.envelope = "WsRestAddMemberRequest"

SubjectIds(d) == {d.subjectLookups[i].subjectId : i \in 1..Len(d.subjectLookups)}

TypeOK ==
    /\ pc \in {"Start", "GateCheck", "Aborted", "DropPhase", "AddPhase", "Done", "Raised"}
    /\ step \in {"none", "loop", "wait", "pause"}

\* ------------------------------------------------------------ properties

\* C1: when |adds| + |drops| is strictly greater than sync_max, synchronize()
\* never gets past the gate: it sends no request (drop or add), never pauses,
\* leaves the group alone, and ends Aborted having logged exactly one warning.
C1_SafetyGate ==
    (Cardinality(adds) + Cardinality(drops) > sync_max) =>
        /\ pc \in {"Start", "GateCheck", "Aborted"}
        /\ Requests(trace) = << >>
        /\ Sleeps(trace) = << >>
        /\ in_flight = {}
        /\ remote = grouper_members
        /\ (pc = "Aborted" => Len(Warnings(trace)) = 1)

C1_Witness ==
    /\ pc = "Aborted"
    /\ Cardinality(adds) + Cardinality(drops) = sync_max + 1
    /\ adds # {}
    /\ drops # {}

\* C2: the constructed Delta has common = authoritative \cap managed,
\* adds = authoritative - managed and drops = managed - authoritative, where
\* authoritative = ldap_members and managed = grouper_query_dict['members'];
\* an empty authoritative set gives adds = {} and drops = managed, an empty
\* managed set gives adds = authoritative and drops = {}, identical sets give
\* adds = drops = {} and common = authoritative.
C2_DeltaSets ==
    LET authoritative == ldap_members
        managed == grouper_query_dict["members"]
    IN  /\ \A x \in Ids : x \in common <=> (x \in authoritative /\ x \in managed)
        /\ \A x \in Ids : x \in adds <=> (x \in authoritative /\ x \notin managed)
        /\ \A x \in Ids : x \in drops <=> (x \in managed /\ x \notin authoritative)
        /\ common \cup adds \cup drops \subseteq Ids
        /\ (authoritative = {} => adds = {} /\ drops = managed)
        /\ (managed = {} => adds = authoritative /\ drops = {})
        /\ (authoritative = managed => adds = {} /\ drops = {} /\ common = authoritative)

C2_Witness ==
    /\ pc = "Start"
    /\ Cardinality(common) = 1
    /\ Cardinality(adds) = 1
    /\ Cardinality(drops) = 1

\* C3: in every state after construction, before, during and after any
\* number of synchronize() calls, common, adds and drops are pairwise
\* disjoint and their union is ldap_members \cup grouper_members.
C3_Partition ==
    /\ adds \cap drops = {}
    /\ adds \cap common = {}
    /\ drops \cap common = {}
    /\ adds \cup drops \cup common = ldap_members \cup grouper_members

\* a later call on the same object: the adds are in the group already
C3_Witness ==
    /\ pc = "AddPhase"
    /\ n_batches = 0
    /\ adds # {}
    /\ adds \subseteq remote
    /\ drops # {}
    /\ common # {}

\* the ids sent in the requests of a trace that satisfy P
SentIds(t, P(_)) ==
    UNION {SubjectIds(t[i].data) : i \in {j \in 1..Len(t) : P(t[j])}}

\* C4: in a run that passes the gate no drop request is ever issued after an
\* add request, and when the first add request is submitted every drop batch
\* has been submitted, its response handled and its outcome logged, and its
\* delay has elapsed.
C4_DropBeforeAdd ==
    /\ \A j \in 1..Len(trace) :
          IsDrop(trace[j]) => \A i \in 1..(j - 1) : ~IsAdd(trace[i])
    /\ \A j \in 1..Len(trace) :
          (IsAdd(trace[j]) /\ \A i \in 1..(j - 1) : ~IsAdd(trace[i])) =>
              LET before == SubSeq(trace, 1, j - 1)
                  n == Len(Requests(before))
                  outcomes == SelectSeq(before, LAMBDA e :
                                  e.ev = "log" /\ e.msg \in {"dropped batch",
                                      "problem running batch delete, result code"})
              IN  /\ \A i \in 1..n : IsDrop(Requests(before)[i])
                  /\ SentIds(before, IsDrop) = drops
                  /\ n * batch_size >= Cardinality(drops)
                  /\ Len(Responses(before)) = n
                  /\ Len(outcomes) = n
                  /\ (batch_delay > 0 => Len(Sleeps(before)) = n)

C4_Witness ==
    /\ pc = "AddPhase"
    /\ step = "wait"
    /\ batch_delay > 0
    /\ Cardinality({i \in 1..Len(trace) : IsDrop(trace[i])}) >= 2
    /\ Cardinality({i \in 1..Len(trace) : IsAdd(trace[i])}) = 1

\* C5: a batch that is answered with a well-formed response carrying a
\* non-success result code does not stop the run: the run is never left by
\* an exception after such a response, and a run that is answered with
\* well-formed responses only submits every batch of both phases, whichever
\* of them report a problem.
C5_ProblemDoesNotStop ==
    LET rsps == Responses(trace)
        ceil(n) == (n + batch_size - 1) \div batch_size
    IN  /\ (pc = "Raised" /\ rsps # << >>) => rsps[Len(rsps)].kind # "json"
        /\ (pc = "Done") =>
              /\ SentIds(trace, IsDrop) = drops
              /\ SentIds(trace, IsAdd) = adds
              /\ Len(Requests(trace)) = ceil(Cardinality(drops)) + ceil(Cardinality(adds))

C5_Witness ==
    LET rsps == Responses(trace)
    IN  /\ pc = "Done"
        /\ Cardinality({i \in 1..Len(trace) : IsDrop(trace[i])}) >= 2
        /\ Cardinality({i \in 1..Len(trace) : IsAdd(trace[i])}) >= 1
        /\ rsps[1].code = PROBLEM
        /\ rsps[Len(rsps)].code = PROBLEM

\* C6: a network error, a timeout or a malformed response on one batch is
\* caught at that batch: it never takes the run out of synchronize().
C6_BatchErrorsCaught ==
    ~(pc = "Raised" /\ exc \in {"Timeout", "ConnectionError", "JSONDecodeError", "KeyError"})

\* C7: in a run that passes the gate with batch_size > 0, the batches of the
\* current phase have between 1 and batch_size members, all but possibly the
\* last have exactly batch_size, they are pairwise disjoint, none repeats a
\* member, and together they are exactly the phase's set.
C7_BatchPartition ==
    (pc \in {"DropPhase", "AddPhase"}) =>
        LET S == IF pc = "DropPhase" THEN drops ELSE adds
            n == Len(batches)
        IN  /\ batch_size > 0
            /\ \A k \in 1..n : Len(batches[k]) >= 1 /\ Len(batches[k]) <= batch_size
            /\ \A k \in 1..(n - 1) : Len(batches[k]) = batch_size
            /\ \A k \in 1..n : Cardinality(Range(batches[k])) = Len(batches[k])
            /\ \A k, m \in 1..n : k # m => Range(batches[k]) \cap Range(batches[m]) = {}
            /\ UNION {Range(batches[k]) : k \in 1..n} = S

C7_Witness ==
    /\ pc = "AddPhase"
    /\ batch_size = 2
    /\ Len(batches) = 2
    /\ Len(batches[1]) = 2
    /\ Len(batches[2]) = 1

\* C8: every mutation request, at the step that submits it, carries
\* replaceAllExisting = "F" and a subjectLookups list holding exactly the
\* member ids of its batch, one entry per member, and nothing else.
C8_RequestBody ==
    [][(Len(Requests(trace')) = Len(Requests(trace)) + 1) =>
          LET e == trace'[Len(trace')]
              batch == batches[n_batches']
          IN  /\ e.ev = "request"
              /\ DOMAIN e.data = {"envelope", "replaceAllExisting", "subjectLookups"}
              /\ e.data.replaceAllExisting = "F"
              /\ Len(e.data.subjectLookups) = Len(batch)
              /\ \A i \in 1..Len(batch) :
                    e.data.subjectLookups[i] = [subjectId |-> batch[i]]
              /\ SubjectIds(e.data) = Range(batch)]_vars

C8_Witness ==
    /\ step = "wait"
    /\ Len(data.subjectLookups) = 2
    /\ Cardinality({i \in 1..Len(trace) : IsDrop(trace[i])}) >= 1
    /\ Cardinality({i \in 1..Len(trace) : IsAdd(trace[i])}) >= 1

\* every request of the current call was answered SUCCESS and applied
AllApplied ==
    /\ Len(Responses(trace)) = Len(Requests(trace))
    /\ \A i \in 1..Len(trace) :
          trace[i].ev = "response" => (trace[i].kind = "json" /\ trace[i].code = SUCCESS)

\* C9: when a run passes the gate with batch_size > 0 and the service applies
\* every batch, then at the end of synchronize() the group's membership is
\* the authoritative set, and a Delta built from it has no adds and no drops.
C9_EndToEnd ==
    (pc = "Done" /\ AllApplied) =>
        /\ remote = ldap_members
        /\ _adds(ldap_members, remote) = {}
        /\ _drops(ldap_members, remote) = {}

C9_Witness ==
    /\ pc = "Done"
    /\ AllApplied
    /\ remote # grouper_members
    /\ Cardinality(drops) = 1
    /\ Cardinality(adds) = 2
    /\ remote = ldap_members

\* C10: every call follows Start -> GateCheck -> {Aborted | DropPhase ->
\* AddPhase -> Done}; with batch_size > 0 nothing is thrown to the caller,
\* whatever the service answers.
C10_NothingThrown ==
    (batch_size > 0) =>
        /\ pc \in {"Start", "GateCheck", "Aborted", "DropPhase", "AddPhase", "Done"}
        /\ exc = "none"

\* the call has come to an end, one way or another
Ended == pc \in {"Done", "Aborted", "Raised"}

\* the position after j of the next request or phase boundary, or the end
NextBatchOrPhase(j) ==
    LET later == {i \in (j + 1)..Len(trace) :
                     \/ trace[i].ev = "request"
                     \/ (trace[i].ev = "log" /\ trace[i].msg \in
                            {"processing adds:", "finished synchronize"})}
    IN  IF later = {} THEN Len(trace) + 1
        ELSE CHOOSE i \in later : \A k \in later : i <= k

SleepsAfter(j) ==
    {i \in (j + 1)..(NextBatchOrPhase(j) - 1) :
        trace[i].ev = "sleep" /\ trace[i].seconds = batch_delay}

\* C11: when batch_delay > 0, every batch that was submitted is followed by
\* exactly one pause of batch_delay seconds before the next batch or phase
\* (or the end of the call); when batch_delay = 0 the call never pauses.
C11_Pacing ==
    Ended =>
        IF batch_delay > 0
        THEN \A j \in 1..Len(trace) :
                trace[j].ev = "request" => Cardinality(SleepsAfter(j)) = 1
        ELSE Sleeps(trace) = << >>

\* C12: a batch is logged as a success (info, no warning) exactly when its
\* result code is the string SUCCESS; any other code gets a warning.
C12_ExactSuccess ==
    \A i \in 1..(Len(trace) - 1) :
        (trace[i].ev = "response" /\ trace[i].kind = "json") =>
            /\ trace[i + 1].ev = "log"
            /\ (trace[i].code = SUCCESS) <=> (trace[i + 1].level = "info")
            /\ (trace[i].code # SUCCESS) <=> (trace[i + 1].level = "warning")

\* C13: with |adds| + |drops| <= sync_max (equality included) and
\* batch_size > 0, no member is sent twice and no call sends more than
\* ceil(|drops| / batch_size) + ceil(|adds| / batch_size) requests; a call
\* that has ended with well-formed responses only has sent exactly that
\* many, whichever of them reported a problem (none when there is nothing
\* to add or drop).
C13_NoRetryNoSkip ==
    LET ceil(n) == (n + batch_size - 1) \div batch_size
        expected == ceil(Cardinality(drops)) + ceil(Cardinality(adds))
        reqs == Requests(trace)
        rsps == Responses(trace)
    IN  (Cardinality(adds) + Cardinality(drops) <= sync_max /\ batch_size > 0) =>
            /\ Len(reqs) <= expected
            /\ \A i, j \in 1..Len(reqs) :
                  i < j => SubjectIds(reqs[i].data) \cap SubjectIds(reqs[j].data) = {}
            /\ (Ended /\ \A i \in 1..Len(rsps) : rsps[i].kind = "json") =>
                  Len(reqs) = expected

C13_Witness ==
    /\ pc = "Done"
    /\ Cardinality(adds) + Cardinality(drops) = sync_max
    /\ Len(Requests(trace)) = 3
    /\ Len(Warnings(trace)) = 2

RequestPositions == {i \in 1..Len(trace) : trace[i].ev = "request"}

IsOutcome(e) ==
    /\ e.ev = "log"
    /\ e.msg \in {"dropped batch", "added batch",
                  "problem running batch delete, result code",
                  "problem running batch add, result code"}

\* C14: at most one request is in flight at any time, and only while the
\* call waits for its answer; between a request and any later one the
\* answer has been received, then its outcome logged, then the delay (if
\* any) has elapsed.
C14_Sequential ==
    /\ Cardinality(in_flight) <= 1
    /\ (in_flight # {}) <=> (step = "wait")
    /\ \A i \in RequestPositions : \A j \in RequestPositions :
          i < j =>
              /\ trace[i + 1].ev = "response"
              /\ IsOutcome(trace[i + 2])
              /\ i + 2 < j
              /\ (batch_delay > 0) =>
                    \E k \in (i + 3)..(j - 1) : trace[k] = Sleep(batch_delay)

C14_Witness ==
    /\ pc = "DropPhase"
    /\ step = "wait"
    /\ batch_delay > 0
    /\ Cardinality(in_flight) = 1
    /\ Cardinality(RequestPositions) = 3

\* the 1-based index, within its phase, of the batch whose request is at j
BatchIndex(j) ==
    Cardinality({i \in 1..j : trace[i].ev = "request"
                                /\ trace[i].data.envelope = trace[j].data.envelope})

\* C15: every batch that gets a well-formed response has exactly one outcome
\* logged right after it: for a code other than SUCCESS a warning carrying
\* the batch index and the code, for SUCCESS an info line carrying the batch
\* index, the number of members of the batch and the duration.
C15_OutcomeLogged ==
    \A i \in 2..Len(trace) :
        (trace[i].ev = "response" /\ trace[i].kind = "json") =>
            /\ i < Len(trace)
            /\ IsOutcome(trace[i + 1])
            /\ (i + 1 < Len(trace)) => ~IsOutcome(trace[i + 2])
            /\ IF trace[i].code # SUCCESS
               THEN /\ trace[i + 1].level = "warning"
                    /\ Len(trace[i + 1].args) = 2
                    /\ trace[i + 1].args[1] = BatchIndex(i - 1)
                    /\ trace[i + 1].args[2] = trace[i].code
               ELSE /\ trace[i + 1].level = "info"
                    /\ trace[i + 1].args =
                          <<BatchIndex(i - 1), Len(trace[i - 1].data.subjectLookups), "batch_t">>

\* the request at j was sent by the add loop
InAddPhase(j) ==
    \E i \in 1..(j - 1) : trace[i].ev = "log" /\ trace[i].msg = "processing adds:"

\* what the requests of both phases have in common
SameTarget(e) ==
    /\ e.url = grouper_query_dict["grouper_members_url"]
    /\ e.auth = <<grouper_query_dict["grouper_user"], grouper_query_dict["grouper_password"]>>
    /\ e.headers = [Content_type |-> "text/x-json"]
    /\ e.timeout = batch_timeout

RequestsUse(drop_verb) ==
    \A j \in RequestPositions :
        /\ SameTarget(trace[j])
        /\ IF InAddPhase(j)
           THEN /\ trace[j].verb = "PUT"
                /\ trace[j].data.envelope = "WsRestAddMemberRequest"
           ELSE /\ trace[j].verb = drop_verb
                /\ trace[j].data.envelope = "WsRestDeleteMemberRequest"

\* C16, as claimed: every drop-phase request is an HTTP DELETE with the
\* WsRestDeleteMemberRequest envelope, every add-phase request an HTTP PUT
\* with the WsRestAddMemberRequest envelope, both to the same url with the
\* same credentials, content type and timeout.
C16_DropUsesDelete == RequestsUse("DELETE")

\* C16, as amended: every drop-phase request is an HTTP POST with the
\* WsRestDeleteMemberRequest envelope, every add-phase request an HTTP PUT
\* with the WsRestAddMemberRequest envelope, both to the same url with the
\* same credentials, content type text/x-json and timeout batch_timeout.
C16_DropUsesPost == RequestsUse("POST")

C16_Witness ==
    /\ pc = "Done"
    /\ \E j \in RequestPositions : ~InAddPhase(j)
    /\ \E j \in RequestPositions : InAddPhase(j)

\* C17: no step of synchronize() changes adds, drops, common, ldap_members,
\* grouper_members, grouper_query_dict or the batch configuration, however
\* the call ends; and all the calls made on one object take one and the same
\* gate decision and build one and the same list of drop batches and of add
\* batches.
C17_Frame ==
    [][/\ (pc' # "Start") => (fields' = fields)
       /\ Cardinality(seen'.gate) <= 1
       /\ Cardinality(seen'.drop_batches) <= 1
       /\ Cardinality(seen'.add_batches) <= 1]_vars

\* a second call on the same object has run to its end
C17_Witness ==
    /\ calls = 2
    /\ pc = "Done"
    /\ Len(Requests(trace)) >= 2
    /\ Len(Warnings(trace)) >= 1
    /\ seen.gate = {"pass"}
    /\ seen.add_batches # {}

\* the adds and drops of a Delta built from ldap_members and the given group
Unreconciled(members) ==
    _adds(ldap_members, members) \cup _drops(ldap_members, members)

\* the members of the batches of the current call that were answered with a
\* code other than SUCCESS
FailedIds ==
    UNION {SubjectIds(trace[j].data) :
             j \in {i \in RequestPositions :
                       /\ i < Len(trace)
                       /\ trace[i + 1].ev = "response"
                       /\ trace[i + 1].kind = "json"
                       /\ trace[i + 1].code # SUCCESS}}

\* a batch is answered SUCCESS and applied
Succeeds ==
    /\ DropReceive \/ AddReceive
    /\ remote' = Apply(remote, data)
    /\ pc' = pc

\* synchronize() called on a Delta that has just been built
FirstCall ==
    /\ pc = "Start"
    /\ synchronize

\* The runs of the reconciliation job: each builds a new Delta from the
\* unchanged ldap_members and the group as it is, and calls synchronize()
\* on it once.
FreshNext ==
    \/ FirstCall
    \/ GateCheck
    \/ DropSubmit
    \/ DropReceive
    \/ DropPause
    \/ StartAdds
    \/ AddSubmit
    \/ AddReceive
    \/ AddPause
    \/ Finish
    \/ NewDelta

\* The runs are repeated for ever, every step of a run is taken, and batches
\* succeed again and again.
FairSpec ==
    /\ Init
    /\ [][FreshNext]_vars
    /\ WF_vars(FreshNext)
    /\ SF_vars(Succeeds)

\* C18: there is no rollback. In the first run of a Delta the members of
\* the batches answered with a non-success code stay unreconciled, and when
\* that run returns, a new Delta built from the same ldap_members and the
\* group as it is now has adds \cup drops equal to exactly the members of
\* those batches; no step ever takes a reconciled member back; and when the
\* runs are repeated with new Deltas and batches keep succeeding, a group
\* that passes the gate with batch_size > 0 eventually equals ldap_members.
C18_NoRollbackConverges ==
    /\ [][/\ (calls' = 1) => (FailedIds' \subseteq Unreconciled(remote'))
          /\ (pc' = "Done" /\ calls' = 1) => (Unreconciled(remote') = FailedIds')
          /\ Unreconciled(remote') \subseteq Unreconciled(remote)]_vars
    /\ (batch_size > 0 /\ Cardinality(adds) + Cardinality(drops) <= sync_max) =>
          <>(remote = ldap_members)

C18_Witness ==
    /\ pc = "Done"
    /\ calls = 1
    /\ FailedIds # {}
    /\ FailedIds # adds \cup drops
    /\ remote # ldap_members
    /\ remote # grouper_members

\* C19: in every state of every call, each member id sent in a drop request
\* is in grouper_members \ ldap_members and each id sent in an add request
\* is in ldap_members \ grouper_members; no id of common is in any request,
\* no id is listed twice in a request or in two requests of the call; and
\* whichever batches fail, the group always contains common and stays
\* within ldap_members \cup grouper_members.
C19_RequestsWithinDelta ==
    /\ \A j \in RequestPositions :
          LET ids == SubjectIds(trace[j].data)
          IN  /\ IsDrop(trace[j]) => (ids \subseteq grouper_members \ ldap_members)
              /\ IsAdd(trace[j]) => (ids \subseteq ldap_members \ grouper_members)
              /\ IsDrop(trace[j]) \/ IsAdd(trace[j])
              /\ ids \cap common = {}
              /\ Cardinality(ids) = Len(trace[j].data.subjectLookups)
              /\ \A i \in RequestPositions :
                    (i # j) => (SubjectIds(trace[i].data) \cap ids = {})
    /\ common \subseteq remote
    /\ remote \subseteq ldap_members \cup grouper_members

\* a run with members in common in which a drop batch and an add batch were
\* sent and only one of them was applied
C19_Witness ==
    /\ pc = "Done"
    /\ common # {}
    /\ \E j \in RequestPositions : IsDrop(trace[j])
    /\ \E j \in RequestPositions : IsAdd(trace[j])
    /\ Len(Warnings(trace)) = 1
    /\ remote # ldap_members
    /\ remote # grouper_members
====
